---- MODULE Spec2Model ----
(***************************************************************************)
(* Night-mode ("quiet hours") bot of src/bot.py: the session lifecycle     *)
(* driven by background_time_check, the capture path of                    *)
(* handle_group_message and the purge of end_night_mode, over the three    *)
(* sqlite tables chat_settings, night_sessions and saved_messages.         *)
(*                                                                         *)
(* Spec      every handler runs to completion before the next one starts   *)
(*           (the two threads never overlap).                              *)
(* SpecConc  the tick thread and the update-handling thread interleave at  *)
(*           the granularity of one sqlite statement / one remote call.    *)
(* SpecNight one chat configured with a window that crosses midnight, a   *)
(*           scan in every minute, the welcome message delivered or not.   *)
(* SpecFail  one sqlite statement of a scan may raise; SpecFailLive adds   *)
(*           the scheduling of the tick thread and the passing of time.    *)
(* SpecLive  a scan in every minute, no statement raises, the settings are *)
(*           left as they were typed in.                                   *)
(* SpecSlow  one turn of the tick loop with the time its remote calls take *)
(*           before the 60 second sleep.                                   *)
(* SpecCursor the two threads interleave between the execute and the fetch *)
(*           of a query on the cursor they share.                          *)
(***************************************************************************)
EXTENDS Integers, Sequences, FiniteSets, TLC

\* ------------------------------------------------------------------ bounds
\* Group chats the bot is a member of, and the chat ids that get typed into the
\* add-chat dialogue.
Chats == {1, 2}
Registrable == {1}
\* A day is cut into this many wall-clock minutes 0 .. MinutesPerDay-1.
MinutesPerDay == 3
\* The wall clock is observed for minutes 0 .. MaxTime, counted from the first
\* midnight.
MaxTime == 4
\* At most this many group messages are captured (message ids 1 .. MaxMsgs).
MaxMsgs == 2
\* At most this many sessions are opened in all.
MaxOpens == 2

Minutes == 0 .. (MinutesPerDay - 1)
MsgIds == 1 .. MaxMsgs

\* ------------------------------------------------------------ time strings
\* A time-of-day string "HH:MM": the minute it denotes and whether the hour is
\* written zero-padded ("05:00") or not ("5:00").  Both spellings pass
\* is_valid_time; only the padded one is ever produced by strftime.
TimeStr(m, padded) == [minute |-> m, padded |-> padded]
\* datetime.now().strftime("%H:%M")
strftime(m) == TimeStr(m, TRUE)
\* A string strptime rejects.
BadTime == [minute |-> -1, padded |-> TRUE]
\* What gets typed as a time: minute 0 in both spellings, and a malformed
\* string.  (The other minutes of the day come from the column defaults.)
TimeInputs == {strftime(0), TimeStr(0, FALSE), BadTime}
\* is_valid_time: datetime.strptime(time_str, "%H:%M") succeeds.
is_valid_time(time_str) == time_str.minute \in Minutes

\* Column defaults of chat_settings: '23:00' and '05:00' (a window that crosses
\* midnight: the last minute of the day to an earlier one).
DefaultStart == strftime(MinutesPerDay - 1)
DefaultEnd == strftime(MinutesPerDay - 2)

\* ------------------------------------------------------------------- state
VARIABLES
    chat_settings,   \* [chat_id -> row], rows: night_mode_enabled, start_time,
                     \*   end_time, is_night_mode_active (is_active is always 1)
    night_sessions,  \* [session_id -> row], rows: chat_id, start_time, end_time,
                     \*   message_count, is_completed, and the history of the
                     \*   row: gen (how many open transitions produced this
                     \*   session_id), calls / ok_calls (delete_message calls of
                     \*   its last purge and how many returned True), n_reports
                     \*   (completion reports sent), n_marked (times marked
                     \*   completed), n_welcome / welcome_ok (send_message calls
                     \*   with the welcome text made for this row and what the
                     \*   last one returned)
    saved_messages,  \* set of rows: chat_id, message_id, night_mode_session,
                     \*   gen (history: gen of the session at capture)
    clock,           \* wall clock: [day, minute]
    ticked,          \* the tick thread has run its scan for this minute
    attempts,        \* history: [message_id -> Seq of <<session_id, gen>>], one
                     \*   entry per delete_message call a purge made for it
    tickT,           \* tick thread: program position and locals
    mainT,           \* update-handling thread: program position and locals
    cursor           \* self.cursor: the rows of the statement executed last
                     \*   that no fetch has taken yet, and history: the
                     \*   thread that executed it

vars == <<chat_settings, night_sessions, saved_messages, clock, ticked,
          attempts, tickT, mainT, cursor>>

NoSession == << >>

\* f"{chat_id}_{datetime.now().strftime('%Y%m%d_%H%M')}"
MakeSessionId(chat_id, now) == <<chat_id, now.day, now.minute>>
\* datetime.now().isoformat(): ordered like the instant it denotes.
isoformat(now) == now.day * MinutesPerDay + now.minute

\* Row that INSERT OR REPLACE INTO chat_settings (chat_id, is_active,
\* added_date) leaves: every other column at its default.
DefaultRow ==
    [night_mode_enabled |-> 0, start_time |-> DefaultStart,
     end_time |-> DefaultEnd, is_night_mode_active |-> 0]


\* ------------------------------------------------------- sqlite statements
\* The database and the history, as one value the handlers transform.
DB ==
    [chat_settings |-> chat_settings, night_sessions |-> night_sessions,
     saved_messages |-> saved_messages, attempts |-> attempts]

\* SELECT * FROM chat_settings WHERE chat_id = ?  (None when there is no row)
HasSettings(cs, chat_id) == chat_id \in DOMAIN cs

\* SELECT ... FROM chat_settings WHERE night_mode_enabled = 1 AND is_active = 1,
\* in rowid (= chat_id) order.
EnabledChats(cs) == {c \in DOMAIN cs : cs[c].night_mode_enabled = 1}

\* Non-completed sessions of a chat.
OpenSessionsOf(ns, chat_id) ==
    {s \in DOMAIN ns : ns[s].chat_id = chat_id /\ ns[s].is_completed = 0}

\* SELECT session_id FROM night_sessions WHERE chat_id = ? AND is_completed = 0
\* ORDER BY start_time DESC LIMIT 1
get_current_session(ns, chat_id) ==
    LET open == OpenSessionsOf(ns, chat_id) IN
    IF open = {} THEN NoSession
    ELSE CHOOSE s \in open : \A t \in open : ns[t].start_time <= ns[s].start_time

\* SELECT message_id FROM saved_messages WHERE chat_id = ? AND night_mode_session = ?
SelectMessages(sm, chat_id, session_id) ==
    {r.message_id : r \in {x \in sm : x.chat_id = chat_id
                                      /\ x.night_mode_session = session_id}}

\* History: how many open transitions have produced this session_id.
GenOf(ns, session_id) == IF session_id \in DOMAIN ns THEN ns[session_id].gen ELSE 0

\* INSERT OR REPLACE INTO night_sessions (session_id, chat_id, start_time, end_time)
InsertSession(ns, session_id, chat_id, now, end_time) ==
    (session_id :> [chat_id |-> chat_id, start_time |-> isoformat(now),
                    end_time |-> end_time, message_count |-> 0,
                    is_completed |-> 0,
                    gen |-> GenOf(ns, session_id) + 1, calls |-> 0,
                    ok_calls |-> 0, n_reports |-> 0, n_marked |-> 0,
                    n_welcome |-> 0, welcome_ok |-> FALSE]) @@ ns

\* UPDATE chat_settings SET is_night_mode_active = ? WHERE chat_id = ?
SetActive(cs, chat_id, v) ==
    IF chat_id \in DOMAIN cs
    THEN [cs EXCEPT ![chat_id].is_night_mode_active = v] ELSE cs

\* UPDATE night_sessions SET is_completed = 1, message_count = ? WHERE session_id = ?
MarkCompleted(ns, session_id, deleted_count) ==
    IF session_id \in DOMAIN ns
    THEN [ns EXCEPT ![session_id].is_completed = 1,
                    ![session_id].message_count = deleted_count,
                    ![session_id].n_marked = @ + 1]
    ELSE ns

\* History: the purge of session_id made `calls` delete_message calls, of
\* which `ok_calls` returned True, and sent its report if `sent`.
LogPurge(ns, session_id, calls, ok_calls, sent) ==
    IF session_id \in DOMAIN ns
    THEN [ns EXCEPT ![session_id].calls = calls,
                    ![session_id].ok_calls = ok_calls,
                    ![session_id].n_reports = @ + (IF sent THEN 1 ELSE 0)]
    ELSE ns

\* History: send_message(chat_id, welcome_message) was called for the session
\* and returned `sent`.
LogWelcome(ns, session_id, sent) ==
    IF session_id \in DOMAIN ns
    THEN [ns EXCEPT ![session_id].n_welcome = @ + 1,
                    ![session_id].welcome_ok = sent]
    ELSE ns

\* INSERT INTO saved_messages (..., night_mode_session)
InsertMessage(sm, chat_id, message_id, session_id, gen) ==
    sm \cup {[chat_id |-> chat_id, message_id |-> message_id,
              night_mode_session |-> session_id, gen |-> gen]}

\* History: one more delete_message call for each of `messages`, made by the
\* purge of `session_id` in its generation `gen`.
LogAttempts(att, messages, session_id, gen) ==
    [m \in DOMAIN att |->
        IF m \in messages THEN Append(att[m], <<session_id, gen>>) ELSE att[m]]

\* ---------------------------------------------------------------- handlers
\* Mutant of CountDeleted: deleted_count incremented for every message,
\* whatever delete_message returns.
CountDeletedAll(messages, ok) == Cardinality(messages)

\* deleted_count of end_night_mode's loop: one more for every delete_message
\* call that returns True (`ok`: the messages the remote service deletes).
CountDeleted(messages, ok) == Cardinality(messages \cap ok)

\* A sqlite statement that raises (sqlite3.Error) instead of executing, named
\* by its place in the branch that runs it; NoFault: none does.
NoFault == "none"
\* The statements of the start branch: 271, 278, 287.
StartFaults == {"insert", "update", "commit"}
\* The statements of end_night_mode: 304, 315, 347, 353, 358.
EndFaults == {"select", "messages", "mark", "flag", "commit"}

\* What a handler leaves: the database, and whether an exception left it.
Outcome(db, raised) == [db |-> db, raised |-> raised]

\* The statement `stmt` of end_night_mode is reached and raises: the first
\* SELECT always is, the others only when a session was found.
end_raises(db, chat_id, stmt) ==
    /\ stmt \in EndFaults
    /\ stmt = "select" \/ get_current_session(db.night_sessions, chat_id) # NoSession

\* Mutant of start_night_mode: the flag is set only when the welcome message
\* was delivered.
start_night_mode_if_sent(db, chat_id, end_time, now, sent, stmt) ==
    LET session_id == MakeSessionId(chat_id, now)
        inserted == [db EXCEPT !.night_sessions =
                        LogWelcome(InsertSession(@, session_id, chat_id, now, end_time),
                                   session_id, sent)]
    IN Outcome(IF sent THEN [inserted EXCEPT !.chat_settings = SetActive(@, chat_id, 1)]
               ELSE inserted, FALSE)

\* Start branch of background_time_check for one chat row.  sent: what
\* send_message returns (its value is not looked at); stmt: the statement that
\* raises, if any.  The statements already executed stay in the connection's
\* open transaction, which the next commit of either thread commits.
start_night_mode(db, chat_id, end_time, now, sent, stmt) ==
    LET session_id == MakeSessionId(chat_id, now)
        inserted == [db EXCEPT !.night_sessions =
                        InsertSession(@, session_id, chat_id, now, end_time)]
        updated == [inserted EXCEPT !.chat_settings = SetActive(@, chat_id, 1)]
        notified == [updated EXCEPT !.night_sessions =
                        LogWelcome(@, session_id, sent)]
    IN CASE stmt = "insert" -> Outcome(db, TRUE)
         [] stmt = "update" -> Outcome(inserted, TRUE)
         [] stmt = "commit" -> Outcome(notified, TRUE)
         [] OTHER -> Outcome(notified, FALSE)

\* Mutant of end_night_mode: the UPDATE that clears is_night_mode_active is
\* left out.
end_night_mode_keeps_flag(db, chat_id, ok, stmt) ==
    LET session_id == get_current_session(db.night_sessions, chat_id) IN
    IF stmt = "select" \/ session_id = NoSession THEN db
    ELSE
      LET messages == SelectMessages(db.saved_messages, chat_id, session_id)
          deleted_count == CountDeleted(messages, ok)
          gen == GenOf(db.night_sessions, session_id)
          sent == HasSettings(db.chat_settings, chat_id)
          purged == [db EXCEPT
                       !.attempts = LogAttempts(@, messages, session_id, gen),
                       !.night_sessions =
                           LogPurge(@, session_id, Cardinality(messages),
                                    Cardinality(messages \cap ok), sent)]
          marked == [purged EXCEPT !.night_sessions =
                        MarkCompleted(@, session_id, deleted_count)]
      IN CASE stmt = "messages" -> db
           [] stmt = "mark" -> purged
           [] OTHER -> marked

\* end_night_mode(chat_id), run without interruption.  An exception of one of
\* its statements is caught by its own except clause: it never raises.
end_night_mode(db, chat_id, ok, stmt) ==
    LET session_id == get_current_session(db.night_sessions, chat_id) IN
    IF stmt = "select" \/ session_id = NoSession THEN db
    ELSE
      LET messages == SelectMessages(db.saved_messages, chat_id, session_id)
          deleted_count == CountDeleted(messages, ok)
          gen == GenOf(db.night_sessions, session_id)
          sent == HasSettings(db.chat_settings, chat_id)
          purged == [db EXCEPT
                       !.attempts = LogAttempts(@, messages, session_id, gen),
                       !.night_sessions =
                           LogPurge(@, session_id, Cardinality(messages),
                                    Cardinality(messages \cap ok), sent)]
          marked == [purged EXCEPT !.night_sessions =
                        MarkCompleted(@, session_id, deleted_count)]
      IN CASE stmt = "messages" -> db
           [] stmt = "mark" -> purged
           [] stmt = "flag" -> marked
           [] OTHER -> [marked EXCEPT !.chat_settings = SetActive(@, chat_id, 0)]

\* Mutant of TickBranch: the window is closed by any tick that is not at the
\* start time while the flag is set.
TickBranchEager(row, current_time) ==
    IF current_time = row.start_time /\ row.is_night_mode_active = 0 THEN "start"
    ELSE IF current_time # row.start_time /\ row.is_night_mode_active = 1 THEN "end"
    ELSE "none"

\* Mutant of TickBranch: the start branch does not look at the flag.
TickBranchNoFlag(row, current_time) ==
    IF current_time = row.start_time THEN "start"
    ELSE IF current_time = row.end_time /\ row.is_night_mode_active = 1 THEN "end"
    ELSE "none"

\* Which branch background_time_check takes for one fetched row.
TickBranch(row, current_time) ==
    IF current_time = row.start_time /\ row.is_night_mode_active = 0 THEN "start"
    ELSE IF current_time = row.end_time /\ row.is_night_mode_active = 1 THEN "end"
    ELSE "none"

\* A fault of one scan: the statement that raises and the chat_id of the
\* iteration it raises in (0: the SELECT over chat_settings at 256).
Fault(chat_id, stmt) == [chat_id |-> chat_id, stmt |-> stmt]
FaultAt(fault, chat_id) == IF fault.chat_id = chat_id THEN fault.stmt ELSE NoFault

\* Mutant of TickChat: two independent tests instead of if / elif, the second
\* without the flag: a scan at start_time = end_time opens and closes.
TickChatBoth(db, chat_id, row, now, ok, sent, stmt) ==
    LET current_time == strftime(now.minute)
        r == IF current_time = row.start_time /\ row.is_night_mode_active = 0
             THEN start_night_mode(db, chat_id, row.end_time, now, sent,
                                   IF stmt \in StartFaults THEN stmt ELSE NoFault)
             ELSE Outcome(db, FALSE)
    IN IF r.raised THEN [db |-> r.db, raised |-> TRUE, failed |-> TRUE]
       ELSE IF current_time = row.end_time
       THEN [db |-> end_night_mode(r.db, chat_id, ok,
                                   IF stmt \in EndFaults THEN stmt ELSE NoFault),
             raised |-> FALSE, failed |-> end_raises(r.db, chat_id, stmt)]
       ELSE [db |-> r.db, raised |-> FALSE, failed |-> FALSE]

\* Mutant of TickChat: the end branch compares the time with the end_time
\* stored in the chat's open session instead of the configured one.
TickChatStoredEnd(db, chat_id, row, now, ok, sent, stmt) ==
    LET s == get_current_session(db.night_sessions, chat_id)
        scheduled == IF s = NoSession THEN row
                     ELSE [row EXCEPT !.end_time = db.night_sessions[s].end_time]
        branch == TickBranch(scheduled, strftime(now.minute))
    IN
    IF branch = "start"
    THEN LET r == start_night_mode(db, chat_id, row.end_time, now, sent,
                                   IF stmt \in StartFaults THEN stmt ELSE NoFault)
         IN [db |-> r.db, raised |-> r.raised, failed |-> r.raised]
    ELSE IF branch = "end"
    THEN [db |-> end_night_mode(db, chat_id, ok,
                                IF stmt \in EndFaults THEN stmt ELSE NoFault),
          raised |-> FALSE, failed |-> end_raises(db, chat_id, stmt)]
    ELSE [db |-> db, raised |-> FALSE, failed |-> FALSE]

\* Body of background_time_check's for loop for one fetched row.  failed: a
\* statement raised in it, whether the exception left the body (raised) or was
\* caught inside end_night_mode.
TickChat(db, chat_id, row, now, ok, sent, stmt) ==
    LET branch == TickBranch(row, strftime(now.minute)) IN
    IF branch = "start"
    THEN LET r == start_night_mode(db, chat_id, row.end_time, now, sent,
                                   IF stmt \in StartFaults THEN stmt ELSE NoFault)
         IN [db |-> r.db, raised |-> r.raised, failed |-> r.raised]
    ELSE IF branch = "end"
    THEN [db |-> end_night_mode(db, chat_id, ok,
                                IF stmt \in EndFaults THEN stmt ELSE NoFault),
          raised |-> FALSE, failed |-> end_raises(db, chat_id, stmt)]
    ELSE [db |-> db, raised |-> FALSE, failed |-> FALSE]

\* The for loop over the fetched rows `chats` (a snapshot), ascending chat_id.
\* It is inside the try block: an exception ends the loop.  failed: the
\* chat_id of the iteration a statement raised in (0: none).
RECURSIVE TickLoop(_, _, _, _, _, _, _)
TickLoop(db, chats, todo, now, ok, sent, fault) ==
    IF todo = {} THEN [db |-> db, raised |-> FALSE, failed |-> 0]
    ELSE LET c == CHOOSE x \in todo : \A y \in todo : x <= y
             r == TickChat(db, c, chats[c], now, ok, sent, FaultAt(fault, c))
             rest == TickLoop(r.db, chats, todo \ {c}, now, ok, sent, fault)
         IN IF r.raised THEN [db |-> r.db, raised |-> TRUE, failed |-> c]
            ELSE IF r.failed THEN [rest EXCEPT !.failed = c]
            ELSE rest

\* One iteration of background_time_check's while loop.
background_time_check(db, now, ok, sent, fault) ==
    LET chats == [c \in EnabledChats(db.chat_settings) |-> db.chat_settings[c]]
    IN IF FaultAt(fault, 0) = "select"
       THEN [db |-> db, raised |-> TRUE, failed |-> 0]
       ELSE TickLoop(db, chats, DOMAIN chats, now, ok, sent, fault)

\* Tail of handle_group_message: save the message if night mode is active.
capture(db, chat_id, message_id) ==
    IF HasSettings(db.chat_settings, chat_id)
       /\ db.chat_settings[chat_id].is_night_mode_active = 1
    THEN LET current_session == get_current_session(db.night_sessions, chat_id) IN
         IF current_session # NoSession
         THEN [db EXCEPT !.saved_messages =
                  InsertMessage(@, chat_id, message_id, current_session,
                                GenOf(db.night_sessions, current_session))]
         ELSE db
    ELSE db

\* Mutant of handle_group_message: the commands do not return before the
\* tail that saves the message.
handle_group_message_saves_commands(db, chat_id, kind, is_admin, message_id, ok) ==
    IF kind = "force_cleanup" /\ is_admin
    THEN end_night_mode(db, chat_id, ok, NoFault)
    ELSE capture(db, chat_id, message_id)

\* handle_group_message.  kind: "command" (/id, /start, /status, /test_night),
\* "force_cleanup" or "other"; is_admin: what is_user_admin answers.
handle_group_message(db, chat_id, kind, is_admin, message_id, ok) ==
    IF kind = "command" THEN db
    ELSE IF kind = "force_cleanup" /\ is_admin
    THEN end_night_mode(db, chat_id, ok, NoFault)
    ELSE capture(db, chat_id, message_id)

\* handle_private_message in state "waiting_chat_id":
\* INSERT OR REPLACE INTO chat_settings (chat_id, is_active, added_date)
register_chat(cs, chat_id) == (chat_id :> DefaultRow) @@ cs

\* handle_callback "toggle_mode_": disable_night_mode if enabled, else enable.
toggle_mode(cs, chat_id) ==
    IF ~HasSettings(cs, chat_id) THEN cs
    ELSE [cs EXCEPT ![chat_id].night_mode_enabled = 1 - @]

\* handle_private_message in state "waiting_time_start" / update_start_time.
set_start_time(cs, chat_id, time_str) ==
    IF is_valid_time(time_str) /\ HasSettings(cs, chat_id)
    THEN [cs EXCEPT ![chat_id].start_time = time_str] ELSE cs

\* handle_private_message in state "waiting_time_end" / update_end_time.
set_end_time(cs, chat_id, time_str) ==
    IF is_valid_time(time_str) /\ HasSettings(cs, chat_id)
    THEN [cs EXCEPT ![chat_id].end_time = time_str] ELSE cs

\* ----------------------------------------------------------------- threads
\* The tick thread between two scans (time.sleep(60)); the update-handling
\* thread between two updates.
\* self.cursor = self.conn.cursor() before any statement.
NoResult == [by |-> "none", rows |-> << >>]

\* A thread's frame: where it is (pc) and its locals.  chats / todo /
\* current_time: the rows background_time_check fetched, those of them not yet
\* handled, and the time string it compares with.  chat_id, session_id,
\* messages, deleted_count: the locals of end_night_mode, of the start branch
\* and of handle_group_message's capture tail.  gen, calls, ok_calls: history
\* (the generation of session_id when it was read, the delete_message calls
\* made so far and how many returned True); failed: history (the chat_id of the
\* iteration of the last scan in which a statement raised, 0 if none did);
\* own, got: history (the rows the thread's last query selected, and the rows
\* its fetch returned for it: own, until the fetch).
Frame(pc) ==
    [pc |-> pc, chats |-> << >>, todo |-> {}, current_time |-> BadTime,
     chat_id |-> 0, session_id |-> NoSession, gen |-> 0, messages |-> {},
     calls |-> 0, deleted_count |-> 0, ok_calls |-> 0, failed |-> 0,
     own |-> << >>, got |-> << >>]
IdleTick == Frame("sleep")
IdleMain == Frame("idle")

SetDB(db) ==
    /\ chat_settings' = db.chat_settings
    /\ night_sessions' = db.night_sessions
    /\ saved_messages' = db.saved_messages
    /\ attempts' = db.attempts

\* History: open transitions so far (the sum of the rows' gen).
RECURSIVE SumGen(_, _)
SumGen(ns, ids) ==
    IF ids = {} THEN 0
    ELSE LET s == CHOOSE x \in ids : TRUE IN ns[s].gen + SumGen(ns, ids \ {s})
TotalOpens(ns) == SumGen(ns, DOMAIN ns)

\* message_id of the next captured message (Telegram's ids are fresh).
NextMessageId == Cardinality(saved_messages) + 1

\* The message ids a purge can name: those of the saved rows.
SavedIds == {r.message_id : r \in saved_messages}

\* State after NightModeBot.__init__ on an empty night_bot.db.
Init ==
    /\ chat_settings = << >>
    /\ night_sessions = << >>
    /\ saved_messages = {}
    /\ clock = [day |-> 0, minute |-> 0]
    /\ ticked = FALSE
    /\ attempts = [m \in MsgIds |-> << >>]
    /\ tickT = IdleTick
    /\ mainT = IdleMain
    /\ cursor = NoResult

\* --------------------------------------------- Spec: handlers never overlap
\* Mutant of ExceptTick: the exception ends the tick thread.
DeadTick == Frame("dead")

\* The tick thread in its except clause (296-298), sleeping there.
ExceptTick == Frame("except")
\* The positions the tick thread starts its next scan from.
Waiting == {"sleep", "except"}

\* One iteration of background_time_check's loop.  After it the thread sleeps
\* 60 seconds, so it scans at most once per wall-clock minute.  sents: what
\* send_message may return; faults: the statements that may raise.
Scan(sents, faults) ==
    /\ ~ticked
    /\ tickT.pc \in Waiting
    /\ \E ok \in SUBSET SavedIds, sent \in sents, fault \in faults :
         LET r == background_time_check(DB, clock, ok, sent, fault)
         IN /\ TotalOpens(r.db.night_sessions) <= MaxOpens
            /\ SetDB(r.db)
            /\ tickT' = [IF r.raised THEN ExceptTick ELSE IdleTick
                           EXCEPT !.failed = r.failed]
    /\ ticked' = TRUE
    /\ UNCHANGED <<cursor, clock, mainT>>

\* A scan in which the notification is delivered and no statement raises.
Tick == Scan({TRUE}, {Fault(0, NoFault)})

\* The wall clock reaches the next minute.
AdvanceClock ==
    /\ isoformat(clock) < MaxTime
    /\ clock' = IF clock.minute = MinutesPerDay - 1
                THEN [day |-> clock.day + 1, minute |-> 0]
                ELSE [clock EXCEPT !.minute = @ + 1]
    /\ ticked' = FALSE
    /\ UNCHANGED <<cursor, chat_settings, night_sessions, saved_messages,
                   attempts, tickT, mainT>>

\* The process is stopped and started again: main() builds a new NightModeBot
\* on the same night_bot.db, whose tick thread scans at once.
Restart ==
    /\ ticked
    /\ ticked' = FALSE
    /\ UNCHANGED <<cursor, chat_settings, night_sessions, saved_messages, clock,
                   attempts, tickT, mainT>>

\* A group update that is one of /id, /start, /status, /test_night.
CommandMessage(chat_id) ==
    /\ SetDB(handle_group_message(DB, chat_id, "command", FALSE, NextMessageId, {}))
    /\ UNCHANGED <<cursor, clock, ticked, tickT, mainT>>

\* A group update with text /force_cleanup.
ForceCleanup(chat_id) ==
    /\ \E is_admin \in BOOLEAN, ok \in SUBSET SavedIds :
         LET db == handle_group_message(DB, chat_id, "force_cleanup", is_admin,
                                         NextMessageId, ok)
         IN /\ Cardinality(db.saved_messages) <= MaxMsgs
            /\ SetDB(db)
    /\ UNCHANGED <<cursor, clock, ticked, tickT, mainT>>

\* Any other group update (text, photo, sticker, ...).
OrdinaryMessage(chat_id) ==
    /\ LET db == handle_group_message(DB, chat_id, "other", FALSE, NextMessageId, {})
       IN /\ Cardinality(db.saved_messages) <= MaxMsgs
          /\ SetDB(db)
    /\ UNCHANGED <<cursor, clock, ticked, tickT, mainT>>

\* Private chat: a chat id typed in state "waiting_chat_id".
RegisterChat(chat_id) ==
    /\ chat_settings' = register_chat(chat_settings, chat_id)
    /\ UNCHANGED <<cursor, night_sessions, saved_messages, clock, ticked,
                   attempts, tickT, mainT>>

\* Private chat: the toggle button of a chat's settings screen.
ToggleMode(chat_id) ==
    /\ chat_settings' = toggle_mode(chat_settings, chat_id)
    /\ UNCHANGED <<cursor, night_sessions, saved_messages, clock, ticked,
                   attempts, tickT, mainT>>

\* Private chat: a time typed in state "waiting_time_start".
EditStart(chat_id) ==
    /\ \E t \in TimeInputs : chat_settings' = set_start_time(chat_settings, chat_id, t)
    /\ UNCHANGED <<cursor, night_sessions, saved_messages, clock, ticked,
                   attempts, tickT, mainT>>

\* Private chat: a time typed in state "waiting_time_end".
EditEnd(chat_id) ==
    /\ \E t \in TimeInputs : chat_settings' = set_end_time(chat_settings, chat_id, t)
    /\ UNCHANGED <<cursor, night_sessions, saved_messages, clock, ticked,
                   attempts, tickT, mainT>>

Next ==
    \/ Tick
    \/ AdvanceClock
    \/ Restart
    \/ \E c \in Chats : CommandMessage(c)
    \/ \E c \in Chats : ForceCleanup(c)
    \/ \E c \in Chats : OrdinaryMessage(c)
    \/ \E c \in Registrable : RegisterChat(c)
    \/ \E c \in Registrable : ToggleMode(c)
    \/ \E c \in Registrable : EditStart(c)
    \/ \E c \in Registrable : EditEnd(c)

Spec == Init /\ [][Next]_vars

\* ------------------ SpecNight: one configured chat, a scan in every minute
\* The windows that cross midnight: start later in the day than end, both as
\* strftime writes them.
Windows == {w \in Minutes \X Minutes : w[1] > w[2]}

\* The add-chat dialogue, the toggle button and the two time dialogues have
\* been gone through for the registrable chats; nothing else has happened.
InitNight ==
    /\ \E w \in Windows :
         chat_settings =
            [c \in Registrable |->
                [night_mode_enabled |-> 1, start_time |-> strftime(w[1]),
                 end_time |-> strftime(w[2]), is_night_mode_active |-> 0]]
    /\ night_sessions = << >>
    /\ saved_messages = {}
    /\ clock = [day |-> 0, minute |-> 0]
    /\ ticked = FALSE
    /\ attempts = [m \in MsgIds |-> << >>]
    /\ tickT = IdleTick
    /\ mainT = IdleMain
    /\ cursor = NoResult

\* A scan whose notification may or may not be delivered.
NightTick == Scan(BOOLEAN, {Fault(0, NoFault)})

\* The next minute begins after this minute's scan: no minute goes unscanned.
ScannedAdvanceClock == ticked /\ AdvanceClock

NextNight ==
    \/ NightTick
    \/ ScannedAdvanceClock
    \/ Restart
    \/ \E c \in Chats : OrdinaryMessage(c)

SpecNight == InitNight /\ [][NextNight]_vars

\* --------------------------- SpecFail: sqlite statements of a scan may raise
\* The faults of one scan: none, the SELECT over chat_settings, or one
\* statement of one chat's iteration.
Faults ==
    {Fault(0, NoFault), Fault(0, "select")}
    \cup {Fault(c, stmt) : c \in Chats, stmt \in StartFaults \cup EndFaults}

\* A scan in which one statement may raise.
FailingTick == Scan({TRUE}, Faults)

NextFail ==
    \/ FailingTick
    \/ AdvanceClock
    \/ \E c \in Chats : OrdinaryMessage(c)
    \/ \E c \in Chats : RegisterChat(c)
    \/ \E c \in Chats : ToggleMode(c)

SpecFail == Init /\ [][NextFail]_vars

\* The step of the tick thread when its sleep is over: in SpecFail it is
\* enabled exactly when FailingTick is, and only a FailingTick step is one.
ScanStep == tickT.pc \in Waiting /\ ~ticked /\ ticked' = TRUE

\* The tick thread is scheduled, and time passes.
SpecFailLive == SpecFail /\ WF_ticked(ScanStep) /\ WF_vars(AdvanceClock)

\* ------------- SpecLive: a scan in every minute, the settings left alone
\* The time strings the settings can hold: the two defaults and every input
\* that update_start_time / update_end_time store, i.e. that is_valid_time
\* accepts.
StoredTimes ==
    {DefaultStart, DefaultEnd} \cup {t \in TimeInputs : is_valid_time(t)}

\* The registrable chats have been added and enabled, and their window has
\* been typed in or left at its default; nothing else has happened.
InitLive ==
    /\ \E st \in StoredTimes, en \in StoredTimes :
         chat_settings =
            [c \in Registrable |->
                [night_mode_enabled |-> 1, start_time |-> st,
                 end_time |-> en, is_night_mode_active |-> 0]]
    /\ night_sessions = << >>
    /\ saved_messages = {}
    /\ clock = [day |-> 0, minute |-> 0]
    /\ ticked = FALSE
    /\ attempts = [m \in MsgIds |-> << >>]
    /\ tickT = IdleTick
    /\ mainT = IdleMain
    /\ cursor = NoResult

NextLive ==
    \/ NightTick
    \/ ScannedAdvanceClock
    \/ \E c \in Chats : OrdinaryMessage(c)

\* Every minute is scanned and time passes; no statement raises and nobody
\* edits the settings.
SpecLive ==
    InitLive /\ [][NextLive]_vars /\ WF_ticked(ScanStep) /\ WF_vars(ScannedAdvanceClock)

\* ------------------- SpecSlow: the remote calls of a scan take their time
\* The wall-clock minute after `now`.
NextMinute(now) ==
    IF now.minute = MinutesPerDay - 1
    THEN [day |-> now.day + 1, minute |-> 0]
    ELSE [now EXCEPT !.minute = @ + 1]

\* Every chat has been registered and enabled; its start time is the default
\* or the first minute of the day.
InitSlow ==
    /\ \E st \in [Chats -> {strftime(0), DefaultStart}] :
         chat_settings =
            [c \in Chats |->
                [night_mode_enabled |-> 1, start_time |-> st[c],
                 end_time |-> DefaultEnd, is_night_mode_active |-> 0]]
    /\ night_sessions = << >>
    /\ saved_messages = {}
    /\ clock = [day |-> 0, minute |-> 0]
    /\ ticked = FALSE
    /\ attempts = [m \in MsgIds |-> << >>]
    /\ tickT = IdleTick
    /\ mainT = IdleMain
    /\ cursor = NoResult

\* One turn of background_time_check's while loop with its time.sleep(60): the
\* scan, then the sleep, which starts when the scan's work is done.  A scan
\* that made no transition is over within its minute, so the thread wakes in
\* the next one.  A scan that opened or closed a session made remote calls
\* (send_message; one delete_message per saved message and time.sleep(0.1)
\* after each), every one of which may last up to its 10 second timeout: the
\* thread then wakes in the next minute or in the one after it.
TimedScan ==
    /\ ~ticked
    /\ tickT.pc \in Waiting
    /\ isoformat(clock) < MaxTime
    /\ \E ok \in SUBSET SavedIds, late \in BOOLEAN :
         LET r == background_time_check(DB, clock, ok, TRUE, Fault(0, NoFault))
             remote == r.db # DB
         IN /\ late => remote
            /\ TotalOpens(r.db.night_sessions) <= MaxOpens
            /\ SetDB(r.db)
            /\ clock' = IF late THEN NextMinute(NextMinute(clock))
                        ELSE NextMinute(clock)
    /\ UNCHANGED <<cursor, ticked, tickT, mainT>>

NextSlow ==
    \/ TimedScan
    \/ \E c \in Chats : OrdinaryMessage(c)

SpecSlow == InitSlow /\ [][NextSlow]_vars

\* ------------------------------------- SpecConc: the two threads interleave
\* end_night_mode, one sqlite statement or remote call per step.  fr: the
\* frame of the thread running it; ret: where that thread continues after.

\* SELECT session_id ... LIMIT 1; fetchone; `if session:`
end_select(fr, db, ret) ==
    LET session_id == get_current_session(db.night_sessions, fr.chat_id) IN
    IF session_id = NoSession
    THEN [fr |-> [Frame(ret) EXCEPT !.chats = fr.chats, !.todo = fr.todo,
                                    !.current_time = fr.current_time],
          db |-> db]
    ELSE [fr |-> [fr EXCEPT !.pc = "end_messages", !.session_id = session_id,
                            !.gen = GenOf(db.night_sessions, session_id)],
          db |-> db]

\* SELECT message_id FROM saved_messages ...; fetchall; deleted_count = 0
end_messages(fr, db) ==
    LET messages == SelectMessages(db.saved_messages, fr.chat_id, fr.session_id)
    IN [fr |-> [fr EXCEPT !.pc = IF messages = {} THEN "end_report"
                                 ELSE "end_delete",
                          !.messages = messages],
        db |-> db]

\* One turn of `for message_row in messages`: delete_message answers `ok`.
end_delete(fr, db, ok) ==
    LET m == CHOOSE x \in fr.messages : \A y \in fr.messages : x <= y
        rest == fr.messages \ {m}
    IN [fr |-> [fr EXCEPT !.pc = IF rest = {} THEN "end_report" ELSE "end_delete",
                          !.messages = rest,
                          !.calls = @ + 1,
                          !.deleted_count = @ + CountDeleted({m}, IF ok THEN {m} ELSE {}),
                          !.ok_calls = @ + (IF ok THEN 1 ELSE 0)],
        db |-> [db EXCEPT !.attempts = LogAttempts(@, {m}, fr.session_id, fr.gen)]]

\* settings = get_chat_settings(chat_id); send_message(chat_id, report_text)
end_report(fr, db) ==
    [fr |-> [fr EXCEPT !.pc = "end_mark"],
     db |-> [db EXCEPT !.night_sessions =
                LogPurge(@, fr.session_id, fr.calls, fr.ok_calls,
                         HasSettings(db.chat_settings, fr.chat_id))]]

\* UPDATE night_sessions SET is_completed = 1, message_count = ?
end_mark(fr, db) ==
    [fr |-> [fr EXCEPT !.pc = "end_flag"],
     db |-> [db EXCEPT !.night_sessions =
                MarkCompleted(@, fr.session_id, fr.deleted_count)]]

\* UPDATE chat_settings SET is_night_mode_active = 0; commit; return
end_flag(fr, db, ret) ==
    [fr |-> [Frame(ret) EXCEPT !.chats = fr.chats, !.todo = fr.todo,
                               !.current_time = fr.current_time],
     db |-> [db EXCEPT !.chat_settings = SetActive(@, fr.chat_id, 0)]]

EndPcs == {"end_select", "end_messages", "end_delete", "end_report",
           "end_mark", "end_flag"}

\* The next step of end_night_mode in frame fr.
end_step(fr, db, ret, ok) ==
    CASE fr.pc = "end_select" -> end_select(fr, db, ret)
      [] fr.pc = "end_messages" -> end_messages(fr, db)
      [] fr.pc = "end_delete" -> end_delete(fr, db, ok)
      [] fr.pc = "end_report" -> end_report(fr, db)
      [] fr.pc = "end_mark" -> end_mark(fr, db)
      [] fr.pc = "end_flag" -> end_flag(fr, db, ret)

\* Tick thread wakes: current_time, then the SELECT over chat_settings.
TickBegin ==
    /\ tickT.pc = "sleep"
    /\ ~ticked
    /\ LET chats == [c \in EnabledChats(chat_settings) |-> chat_settings[c]]
       IN tickT' = [tickT EXCEPT !.pc = "loop", !.chats = chats,
                                 !.todo = DOMAIN chats,
                                 !.current_time = strftime(clock.minute)]
    /\ UNCHANGED <<cursor, chat_settings, night_sessions, saved_messages, clock, ticked,
                   attempts, mainT>>

\* Tick thread: the for loop takes the next fetched row; in the start branch
\* it runs the INSERT OR REPLACE, in the end branch it enters end_night_mode.
TickLoopStep ==
    /\ tickT.pc = "loop"
    /\ tickT.todo # {}
    /\ LET c == CHOOSE x \in tickT.todo : \A y \in tickT.todo : x <= y
           row == tickT.chats[c]
           branch == TickBranch(row, tickT.current_time)
           fr == [tickT EXCEPT !.todo = @ \ {c}]
       IN IF branch = "start"
          THEN /\ TotalOpens(night_sessions) < MaxOpens
               /\ night_sessions' =
                     InsertSession(night_sessions, MakeSessionId(c, clock), c,
                                   clock, row.end_time)
               /\ tickT' = [fr EXCEPT !.pc = "start_flag", !.chat_id = c,
                                      !.session_id = MakeSessionId(c, clock)]
          ELSE /\ tickT' = IF branch = "end"
                           THEN [fr EXCEPT !.pc = "end_select", !.chat_id = c]
                           ELSE fr
               /\ UNCHANGED night_sessions
    /\ UNCHANGED <<cursor, chat_settings, saved_messages, clock, ticked, attempts, mainT>>

\* Tick thread, start branch: UPDATE chat_settings SET is_night_mode_active = 1,
\* send_message(welcome_message), commit.
TickStartFlag ==
    /\ tickT.pc = "start_flag"
    /\ chat_settings' = SetActive(chat_settings, tickT.chat_id, 1)
    /\ \E sent \in BOOLEAN :
         night_sessions' = LogWelcome(night_sessions, tickT.session_id, sent)
    /\ tickT' = [tickT EXCEPT !.pc = "loop", !.chat_id = 0,
                              !.session_id = NoSession]
    /\ UNCHANGED <<cursor, saved_messages, clock, ticked, attempts, mainT>>

\* Tick thread inside end_night_mode.
TickEnd ==
    /\ tickT.pc \in EndPcs
    /\ \E ok \in BOOLEAN :
         LET r == end_step(tickT, DB, "loop", ok)
         IN tickT' = r.fr /\ SetDB(r.db)
    /\ UNCHANGED <<cursor, clock, ticked, mainT>>

\* Tick thread: every fetched row handled; time.sleep(60).
TickSleep ==
    /\ tickT.pc = "loop"
    /\ tickT.todo = {}
    /\ tickT' = IdleTick
    /\ ticked' = TRUE
    /\ UNCHANGED <<cursor, chat_settings, night_sessions, saved_messages, clock,
                   attempts, mainT>>

\* The wall clock reaches the next minute, whatever the threads are doing.
ConcAdvanceClock ==
    /\ isoformat(clock) < MaxTime
    /\ clock' = IF clock.minute = MinutesPerDay - 1
                THEN [day |-> clock.day + 1, minute |-> 0]
                ELSE [clock EXCEPT !.minute = @ + 1]
    /\ ticked' = FALSE
    /\ UNCHANGED <<cursor, chat_settings, night_sessions, saved_messages,
                   attempts, tickT, mainT>>

\* Main thread: /force_cleanup from an administrator enters end_night_mode.
MainForceCleanup(chat_id) ==
    /\ mainT.pc = "idle"
    /\ mainT' = [mainT EXCEPT !.pc = "end_select", !.chat_id = chat_id]
    /\ UNCHANGED <<cursor, chat_settings, night_sessions, saved_messages, clock, ticked,
                   attempts, tickT>>

\* Main thread inside end_night_mode.
MainEnd ==
    /\ mainT.pc \in EndPcs
    /\ \E ok \in BOOLEAN :
         LET r == end_step(mainT, DB, "idle", ok)
         IN mainT' = r.fr /\ SetDB(r.db)
    /\ UNCHANGED <<cursor, clock, ticked, tickT>>

\* Main thread, an ordinary group message: settings = get_chat_settings(chat_id)
\* and the test of is_night_mode_active.
MainReadFlag(chat_id) ==
    /\ mainT.pc = "idle"
    /\ Cardinality(saved_messages) < MaxMsgs
    /\ HasSettings(chat_settings, chat_id)
    /\ chat_settings[chat_id].is_night_mode_active = 1
    /\ mainT' = [mainT EXCEPT !.pc = "msg_session", !.chat_id = chat_id]
    /\ UNCHANGED <<cursor, chat_settings, night_sessions, saved_messages, clock, ticked,
                   attempts, tickT>>

\* Main thread: current_session = get_current_session(chat_id).
MainReadSession ==
    /\ mainT.pc = "msg_session"
    /\ LET current_session == get_current_session(night_sessions, mainT.chat_id)
       IN mainT' = IF current_session = NoSession THEN IdleMain
                   ELSE [mainT EXCEPT !.pc = "msg_save",
                                      !.session_id = current_session,
                                      !.gen = GenOf(night_sessions, current_session)]
    /\ UNCHANGED <<cursor, chat_settings, night_sessions, saved_messages, clock, ticked,
                   attempts, tickT>>

\* Main thread: save_message(..., current_session).
MainSave ==
    /\ mainT.pc = "msg_save"
    /\ saved_messages' = InsertMessage(saved_messages, mainT.chat_id, NextMessageId,
                                       mainT.session_id, mainT.gen)
    /\ mainT' = IdleMain
    /\ UNCHANGED <<cursor, chat_settings, night_sessions, clock, ticked, attempts, tickT>>

\* Main thread: the add-chat dialogue and the toggle button (one statement each).
MainRegisterChat(chat_id) == mainT.pc = "idle" /\ RegisterChat(chat_id)
MainToggleMode(chat_id) == mainT.pc = "idle" /\ ToggleMode(chat_id)

NextConc ==
    \/ TickBegin
    \/ TickLoopStep
    \/ TickStartFlag
    \/ TickEnd
    \/ TickSleep
    \/ ConcAdvanceClock
    \/ \E c \in Chats : MainForceCleanup(c)
    \/ MainEnd
    \/ \E c \in Chats : MainReadFlag(c)
    \/ MainReadSession
    \/ MainSave
    \/ \E c \in Registrable : MainRegisterChat(c)
    \/ \E c \in Registrable : MainToggleMode(c)

SpecConc == Init /\ [][NextConc]_vars

\* ----------------- SpecCursor: execute and fetch on the one shared cursor
\* A row of a result set: the query that selected it (q), its column 0 (key)
\* and, for a row of chat_settings, the columns the model keeps (cols).
\* Column 0 is a chat_id, a session_id or a message_id; the three are kept
\* apart as triples (a Telegram group's chat_id is negative, a message_id
\* positive, a session_id a string).
Row(q, key, cols) == [q |-> q, key |-> key, cols |-> cols]
NoCols ==
    [night_mode_enabled |-> 0, start_time |-> BadTime, end_time |-> BadTime,
     is_night_mode_active |-> 0]
ChatKey(chat_id) == <<chat_id, -1, -1>>
MessageKey(message_id) == <<message_id, -2, -2>>

\* The numbers of a finite set in ascending (rowid) order.
RECURSIVE Ascending(_)
Ascending(S) ==
    IF S = {} THEN << >>
    ELSE LET m == CHOOSE x \in S : \A y \in S : x <= y
         IN <<m>> \o Ascending(S \ {m})

\* SELECT chat_id, start_time, end_time, ... FROM chat_settings
\* WHERE night_mode_enabled = 1 AND is_active = 1
ChatRows(cs) ==
    LET ids == Ascending(EnabledChats(cs))
    IN [i \in 1..Len(ids) |-> Row("chats", ChatKey(ids[i]), cs[ids[i]])]

\* SELECT * FROM chat_settings WHERE chat_id = ?
SettingsRows(cs, chat_id) ==
    IF HasSettings(cs, chat_id)
    THEN <<Row("settings", ChatKey(chat_id), cs[chat_id])>> ELSE << >>

\* SELECT session_id FROM night_sessions WHERE chat_id = ? AND is_completed = 0
\* ORDER BY start_time DESC LIMIT 1
SessionRows(ns, chat_id) ==
    LET session_id == get_current_session(ns, chat_id)
    IN IF session_id = NoSession THEN << >>
       ELSE <<Row("session", session_id, NoCols)>>

\* SELECT message_id FROM saved_messages WHERE chat_id = ? AND night_mode_session = ?
MessageRows(sm, chat_id, session_id) ==
    LET ids == Ascending(SelectMessages(sm, chat_id, session_id))
    IN [i \in 1..Len(ids) |-> Row("message", MessageKey(ids[i]), NoCols)]

\* self.cursor.execute(...): the statement's rows replace what the cursor held.
execute(by, rows) == [by |-> by, rows |-> rows]
\* self.cursor.fetchone(): the next row of the cursor's statement, if any.
fetchone(cur) == IF cur.rows = << >> THEN << >> ELSE <<Head(cur.rows)>>
AfterFetchone(cur) ==
    [cur EXCEPT !.rows = IF @ = << >> THEN << >> ELSE Tail(@)]
\* self.cursor.fetchall(): the rows that are left.
fetchall(cur) == cur.rows
AfterFetchall(cur) == [cur EXCEPT !.rows = << >>]

\* Both chats have been registered and enabled and keep the default window;
\* nothing else has happened.
InitCursor ==
    /\ chat_settings = [c \in Chats |-> [DefaultRow EXCEPT !.night_mode_enabled = 1]]
    /\ night_sessions = << >>
    /\ saved_messages = {}
    /\ clock = [day |-> 0, minute |-> 0]
    /\ ticked = FALSE
    /\ attempts = [m \in MsgIds |-> << >>]
    /\ tickT = IdleTick
    /\ mainT = IdleMain
    /\ cursor = NoResult

\* Tick thread, 252-260: current_time; execute of the SELECT over chat_settings.
CurScanExecute ==
    /\ ~ticked
    /\ tickT.pc \in Waiting
    /\ LET rows == ChatRows(chat_settings)
       IN /\ cursor' = execute("tick", rows)
          /\ tickT' = [Frame("scan_fetch") EXCEPT
                          !.current_time = strftime(clock.minute),
                          !.own = rows, !.got = rows]
    /\ ticked' = TRUE
    /\ UNCHANGED <<chat_settings, night_sessions, saved_messages, attempts,
                   clock, mainT>>

\* Tick thread, 261-263: chats = fetchall(); the for statement unpacks each row
\* into six names, which raises ValueError on a row of another statement.
CurScanFetch ==
    /\ tickT.pc = "scan_fetch"
    /\ LET rows == fetchall(cursor)
           ids == {rows[i].key[1] : i \in 1..Len(rows)}
       IN tickT' =
            IF \E i \in 1..Len(rows) : rows[i].q # "chats"
            THEN [ExceptTick EXCEPT !.own = tickT.own, !.got = rows]
            ELSE [tickT EXCEPT
                     !.pc = "loop",
                     !.chats = [c \in ids |->
                                  (CHOOSE r \in {rows[i] : i \in 1..Len(rows)} :
                                       r.key[1] = c).cols],
                     !.todo = ids,
                     !.got = rows]
    /\ cursor' = AfterFetchall(cursor)
    /\ UNCHANGED <<chat_settings, night_sessions, saved_messages, attempts,
                   clock, ticked, mainT>>

\* Tick thread, 263-294: the next fetched row.  The start branch (its INSERT,
\* UPDATE, send_message and commit) is one step; the end branch enters
\* end_night_mode; after the last row the thread sleeps.
CurLoop ==
    /\ tickT.pc = "loop"
    /\ IF tickT.todo = {}
       THEN /\ tickT' = [IdleTick EXCEPT !.own = tickT.own, !.got = tickT.got]
            /\ UNCHANGED <<chat_settings, night_sessions, saved_messages,
                           attempts, cursor>>
       ELSE LET c == CHOOSE x \in tickT.todo : \A y \in tickT.todo : x <= y
                row == tickT.chats[c]
                branch == TickBranch(row, tickT.current_time)
            IN IF branch = "start"
               THEN /\ SetDB(start_night_mode(DB, c, row.end_time, clock, TRUE,
                                              NoFault).db)
                    /\ cursor' = execute("tick", << >>)
                    /\ tickT' = [tickT EXCEPT !.todo = @ \ {c},
                                              !.own = << >>, !.got = << >>]
               ELSE /\ tickT' = [tickT EXCEPT
                                    !.todo = @ \ {c},
                                    !.pc = IF branch = "end" THEN "end_exec" ELSE @,
                                    !.chat_id = c]
                    /\ UNCHANGED <<chat_settings, night_sessions, saved_messages,
                                   attempts, cursor>>
    /\ UNCHANGED <<clock, ticked, mainT>>

\* Tick thread, end_night_mode 304-308: execute of the session SELECT.
CurEndExecute ==
    /\ tickT.pc = "end_exec"
    /\ LET rows == SessionRows(night_sessions, tickT.chat_id)
       IN /\ cursor' = execute("tick", rows)
          /\ tickT' = [tickT EXCEPT !.pc = "end_fetch", !.own = rows, !.got = rows]
    /\ UNCHANGED <<chat_settings, night_sessions, saved_messages, attempts,
                   clock, ticked, mainT>>

\* Tick thread, 309-313: session = fetchone(); if session: session_id = session[0]
CurEndFetch ==
    /\ tickT.pc = "end_fetch"
    /\ LET session == fetchone(cursor)
       IN tickT' =
            IF session = << >>
            THEN [tickT EXCEPT !.pc = "loop", !.got = session]
            ELSE [tickT EXCEPT !.pc = "msgs_exec", !.got = session,
                               !.session_id = session[1].key,
                               !.gen = GenOf(night_sessions, session[1].key)]
    /\ cursor' = AfterFetchone(cursor)
    /\ UNCHANGED <<chat_settings, night_sessions, saved_messages, attempts,
                   clock, ticked, mainT>>

\* Tick thread, 315-318: execute of the SELECT over saved_messages.
CurMessagesExecute ==
    /\ tickT.pc = "msgs_exec"
    /\ LET rows == MessageRows(saved_messages, tickT.chat_id, tickT.session_id)
       IN /\ cursor' = execute("tick", rows)
          /\ tickT' = [tickT EXCEPT !.pc = "msgs_fetch", !.own = rows, !.got = rows]
    /\ UNCHANGED <<chat_settings, night_sessions, saved_messages, attempts,
                   clock, ticked, mainT>>

\* Tick thread, 320-358: messages = fetchall(), and the rest of end_night_mode
\* in one step: a delete_message call for column 0 of every fetched row (a
\* call for something that is no message_id fails), the report, the two
\* UPDATEs and the commit.
CurMessagesFetch ==
    /\ tickT.pc = "msgs_fetch"
    /\ \E ok \in SUBSET SavedIds :
         LET rows == fetchall(cursor)
             messages == {rows[i].key[1] :
                             i \in {j \in 1..Len(rows) : rows[j].q = "message"}}
             purged == [DB EXCEPT
                          !.attempts = LogAttempts(@, messages, tickT.session_id,
                                                   tickT.gen),
                          !.night_sessions =
                              LogPurge(@, tickT.session_id, Len(rows),
                                       Cardinality(messages \cap ok),
                                       HasSettings(chat_settings, tickT.chat_id))]
             marked == [purged EXCEPT !.night_sessions =
                           MarkCompleted(@, tickT.session_id,
                                         CountDeleted(messages, ok))]
         IN /\ SetDB([marked EXCEPT !.chat_settings = SetActive(@, tickT.chat_id, 0)])
            /\ tickT' = [tickT EXCEPT !.pc = "loop", !.got = rows,
                                      !.messages = messages]
    /\ cursor' = execute("tick", << >>)
    /\ UNCHANGED <<clock, ticked, mainT>>

\* The next minute begins while the tick thread sleeps after its scan.
CurAdvanceClock ==
    /\ ticked
    /\ tickT.pc \in Waiting
    /\ isoformat(clock) < MaxTime
    /\ clock' = NextMinute(clock)
    /\ ticked' = FALSE
    /\ UNCHANGED <<chat_settings, night_sessions, saved_messages, attempts,
                   tickT, mainT, cursor>>

\* Main thread, handle_group_message 605 / get_chat_settings 812: an ordinary
\* group message arrives; execute of the SELECT of the chat's settings.
CurMainSettingsExecute(chat_id) ==
    /\ mainT.pc = "idle"
    /\ Cardinality(saved_messages) < MaxMsgs
    /\ LET rows == SettingsRows(chat_settings, chat_id)
       IN /\ cursor' = execute("main", rows)
          /\ mainT' = [Frame("settings_fetch") EXCEPT !.chat_id = chat_id,
                                                      !.own = rows, !.got = rows]
    /\ UNCHANGED <<chat_settings, night_sessions, saved_messages, attempts,
                   clock, ticked, tickT>>

\* Main thread, 813 and 606: settings = fetchone();
\* if settings and len(settings) > 9 and settings[9]  (only a row of
\* SELECT * FROM chat_settings has ten columns).
CurMainSettingsFetch ==
    /\ mainT.pc = "settings_fetch"
    /\ LET settings == fetchone(cursor)
       IN mainT' =
            IF /\ settings # << >>
               /\ settings[1].q = "settings"
               /\ settings[1].cols.is_night_mode_active = 1
            THEN [mainT EXCEPT !.pc = "session_exec", !.got = settings]
            ELSE [IdleMain EXCEPT !.own = mainT.own, !.got = settings]
    /\ cursor' = AfterFetchone(cursor)
    /\ UNCHANGED <<chat_settings, night_sessions, saved_messages, attempts,
                   clock, ticked, tickT>>

\* Main thread, get_current_session 379-383: execute of the session SELECT.
CurMainSessionExecute ==
    /\ mainT.pc = "session_exec"
    /\ LET rows == SessionRows(night_sessions, mainT.chat_id)
       IN /\ cursor' = execute("main", rows)
          /\ mainT' = [mainT EXCEPT !.pc = "session_fetch", !.own = rows, !.got = rows]
    /\ UNCHANGED <<chat_settings, night_sessions, saved_messages, attempts,
                   clock, ticked, tickT>>

\* Main thread, 384-385 and 608: result = fetchone();
\* return result[0] if result else None; if current_session:
CurMainSessionFetch ==
    /\ mainT.pc = "session_fetch"
    /\ LET result == fetchone(cursor)
       IN mainT' =
            IF result = << >>
            THEN [IdleMain EXCEPT !.own = mainT.own, !.got = result]
            ELSE [mainT EXCEPT !.pc = "save", !.got = result,
                               !.session_id = result[1].key,
                               !.gen = GenOf(night_sessions, result[1].key)]
    /\ cursor' = AfterFetchone(cursor)
    /\ UNCHANGED <<chat_settings, night_sessions, saved_messages, attempts,
                   clock, ticked, tickT>>

\* Main thread, save_message 367-372: INSERT INTO saved_messages; commit.
CurMainSave ==
    /\ mainT.pc = "save"
    /\ saved_messages' = InsertMessage(saved_messages, mainT.chat_id, NextMessageId,
                                       mainT.session_id, mainT.gen)
    /\ cursor' = execute("main", << >>)
    /\ mainT' = [IdleMain EXCEPT !.own = << >>, !.got = << >>]
    /\ UNCHANGED <<chat_settings, night_sessions, attempts, clock, ticked, tickT>>

NextCursor ==
    \/ CurScanExecute
    \/ CurScanFetch
    \/ CurLoop
    \/ CurEndExecute
    \/ CurEndFetch
    \/ CurMessagesExecute
    \/ CurMessagesFetch
    \/ CurAdvanceClock
    \/ \E c \in Chats : CurMainSettingsExecute(c)
    \/ CurMainSettingsFetch
    \/ CurMainSessionExecute
    \/ CurMainSessionFetch
    \/ CurMainSave

SpecCursor == InitCursor /\ [][NextCursor]_vars

\* ------------------------------------------------------------------ claims
ActiveFlag(chat_id) ==
    HasSettings(chat_settings, chat_id)
    /\ chat_settings[chat_id].is_night_mode_active = 1

\* C1: every chat has at most one session with is_completed = 0.
C1_AtMostOneOpenSession ==
    \A c \in Chats : Cardinality(OpenSessionsOf(night_sessions, c)) <= 1

\* C2: a chat's is_night_mode_active flag is set if and only if exactly one
\* non-completed session of the chat exists.
C2_FlagIffOneOpenSession ==
    \A c \in Chats :
        ActiveFlag(c) <=> (Cardinality(OpenSessionsOf(night_sessions, c)) = 1)

\* A step of the tick thread's scan, and the chats it finds at a boundary.
TickStep == ~ticked /\ ticked'
Enabled(c) == HasSettings(chat_settings, c) /\ chat_settings[c].night_mode_enabled = 1
AtStart(c) == Enabled(c) /\ strftime(clock.minute) = chat_settings[c].start_time
AtEnd(c) == Enabled(c) /\ strftime(clock.minute) = chat_settings[c].end_time
\* This step made an open transition for chat c.
OpenedNow(c) ==
    LET sid == MakeSessionId(c, clock) IN
    /\ sid \in DOMAIN night_sessions'
    /\ night_sessions'[sid].is_completed = 0
    /\ GenOf(night_sessions', sid) = GenOf(night_sessions, sid) + 1

\* C3 (first half): a tick at an enabled chat's start time while the chat has
\* no open session opens exactly one session, scheduled to close at the chat's
\* configured end time, and sets the active flag.
C3_OpensWhenNoOpenSession ==
    [][\A c \in Chats :
         (TickStep /\ AtStart(c) /\ OpenSessionsOf(night_sessions, c) = {}) =>
            /\ OpenedNow(c)
            /\ OpenSessionsOf(night_sessions', c) = {MakeSessionId(c, clock)}
            /\ night_sessions'[MakeSessionId(c, clock)].end_time
                  = chat_settings[c].end_time
            /\ ActiveFlag(c)']_vars

\* C3: as above, and the decision rests on the ledger: a tick at the start time
\* while the chat has an open session opens nothing.
C3_OpensIffNoOpenSession ==
    [][\A c \in Chats :
         /\ (TickStep /\ AtStart(c) /\ OpenSessionsOf(night_sessions, c) = {}) =>
               /\ OpenedNow(c)
               /\ OpenSessionsOf(night_sessions', c) = {MakeSessionId(c, clock)}
               /\ night_sessions'[MakeSessionId(c, clock)].end_time
                     = chat_settings[c].end_time
               /\ ActiveFlag(c)'
         /\ (TickStep /\ AtStart(c) /\ OpenSessionsOf(night_sessions, c) # {}) =>
               ~OpenedNow(c)]_vars

\* C4: a tick at an enabled chat's end time while the chat has an open session
\* makes the delete attempts of that session, marks it closed and clears the
\* active flag; no session is marked closed more than once.
C4_ClosesWhenOpenSession ==
    [][/\ \A c \in Chats :
            (TickStep /\ AtEnd(c) /\ OpenSessionsOf(night_sessions, c) # {}) =>
               LET sid == get_current_session(night_sessions, c) IN
               /\ night_sessions'[sid].is_completed = 1
               /\ \A m \in SelectMessages(saved_messages, c, sid) :
                     Len(attempts'[m]) = Len(attempts[m]) + 1
               /\ ~ActiveFlag(c)'
       /\ \A s \in DOMAIN night_sessions' : night_sessions'[s].n_marked <= 1]_vars

\* A purge of session_id has fetched its message list (or has finished).
PastListRead == {"end_delete", "end_report", "end_mark", "end_flag"}
PurgeHasRead(session_id) ==
    \/ tickT.pc \in PastListRead /\ tickT.session_id = session_id
    \/ mainT.pc \in PastListRead /\ mainT.session_id = session_id
    \/ /\ session_id \in DOMAIN night_sessions
       /\ night_sessions[session_id].n_marked > 0

\* C5: no message is stored under a session after a purge of that session has
\* fetched its message list, and once a session is closed every message stored
\* under it has had a delete_message call from that session's purge.
C5_NoCaptureDuringPurge ==
    [][/\ \A r \in saved_messages' \ saved_messages :
            ~PurgeHasRead(r.night_mode_session)
       /\ \A r \in saved_messages' :
            (/\ GenOf(night_sessions', r.night_mode_session) = r.gen
             /\ night_sessions'[r.night_mode_session].is_completed = 1)
            => \E i \in DOMAIN attempts'[r.message_id] :
                  attempts'[r.message_id][i] = <<r.night_mode_session, r.gen>>]_vars

\* C6: every captured message is stored once, and the session it is stored
\* under is, when the row is inserted, a non-completed session of the same chat.
C6_CapturedUnderOpenSession ==
    [][/\ \A r \in saved_messages' \ saved_messages :
            /\ r.night_mode_session \in DOMAIN night_sessions
            /\ night_sessions[r.night_mode_session].chat_id = r.chat_id
            /\ night_sessions[r.night_mode_session].is_completed = 0
       /\ \A r1, r2 \in saved_messages' :
            r1.message_id = r2.message_id => r1 = r2]_vars

\* C7: a captured message gets at most one delete_message call, made by the
\* purge of the session it was captured in, and exactly one once that session
\* is closed.
C7_OneAttemptInOwnSession ==
    \A r \in saved_messages :
        LET att == attempts[r.message_id]
            sid == r.night_mode_session
        IN /\ Len(att) <= 1
           /\ \A i \in DOMAIN att : att[i] = <<sid, r.gen>>
           /\ (/\ GenOf(night_sessions, sid) = r.gen
               /\ night_sessions[sid].is_completed = 1) => Len(att) = 1

\* C10: with a tick-driven close and a force-cleanup close of one chat running
\* at once, every captured message gets at most one delete_message call, at
\* most one completion report is sent per session and a session is marked
\* closed once.
C10_CloseIsSerialized ==
    /\ \A m \in MsgIds : Len(attempts[m]) <= 1
    /\ \A s \in DOMAIN night_sessions :
          /\ night_sessions[s].n_reports <= 1
          /\ night_sessions[s].n_marked <= 1

\* A purge of session s ran to its end in this step.
PurgeCompleted(s) ==
    /\ s \in DOMAIN night_sessions'
    /\ night_sessions'[s].n_marked > night_sessions[s].n_marked

\* C8: a purge of a session with n captured messages makes n delete_message
\* calls and counts as deleted exactly those that succeeded (the rest, n minus
\* deleted, failed); whatever failed, the session ends marked closed and the
\* chat's active flag cleared.
C8_PurgeCounts ==
    [][\A s \in DOMAIN night_sessions :
         PurgeCompleted(s) =>
            LET row == night_sessions'[s]
                n == Cardinality(SelectMessages(saved_messages,
                                                night_sessions[s].chat_id, s))
            IN /\ row.calls = n
               /\ row.message_count = row.ok_calls
               /\ row.calls - row.message_count = n - row.ok_calls
               /\ row.is_completed = 1
               /\ ~ActiveFlag(night_sessions[s].chat_id)']_vars

\* C8 witness: a closed session whose purge had two messages, one of which the
\* remote service refused to delete.
C8_Witness ==
    \E s \in DOMAIN night_sessions :
        /\ night_sessions[s].is_completed = 1
        /\ night_sessions[s].calls = 2
        /\ night_sessions[s].ok_calls = 1
        /\ ~ActiveFlag(night_sessions[s].chat_id)

\* C9: end_night_mode invoked twice in a row for a chat purges once: the second
\* run finds no open session and changes nothing (no delete_message call, no
\* report, same ledger, flag and saved messages).
C9_SecondCloseIsNoOp ==
    \A c \in Chats : \A ok1, ok2 \in SUBSET SavedIds :
        LET once == end_night_mode(DB, c, ok1, NoFault)
        IN /\ get_current_session(once.night_sessions, c) = NoSession
           /\ end_night_mode(once, c, ok2, NoFault) = once

\* C11: a tick that takes the start branch opens the session and sets the
\* active flag whether send_message returns True or False, and calls
\* send_message with the welcome text once.
C11_NotificationDoesNotBlock ==
    [][\A c \in Chats :
         (TickStep /\ AtStart(c) /\ ~ActiveFlag(c)) =>
            /\ OpenedNow(c)
            /\ ActiveFlag(c)'
            /\ night_sessions'[MakeSessionId(c, clock)].n_welcome = 1]_vars

\* C11 witness: an open session of a chat with the flag set whose welcome
\* message was not delivered.
C11_Witness ==
    \E s \in DOMAIN night_sessions :
        /\ night_sessions[s].is_completed = 0
        /\ night_sessions[s].n_welcome = 1
        /\ ~night_sessions[s].welcome_ok
        /\ ActiveFlag(night_sessions[s].chat_id)

\* C13: for a window whose start is later in the day than its end, with a scan
\* in every minute, the scan at the start time opens the chat's session, the
\* scan at the end time (on the next day) closes it, and no other scan changes
\* the ledger or the chat's flag: the session stays open across midnight.
C13_MidnightWindow ==
    [][\A c \in DOMAIN chat_settings :
         TickStep =>
            LET now == strftime(clock.minute)
                open == OpenSessionsOf(night_sessions, c)
                same == /\ night_sessions' = night_sessions
                        /\ chat_settings' = chat_settings
            IN IF now = chat_settings[c].start_time /\ open = {}
               THEN /\ OpenedNow(c)
                    /\ OpenSessionsOf(night_sessions', c) = {MakeSessionId(c, clock)}
                    /\ ActiveFlag(c)'
               ELSE IF now = chat_settings[c].end_time /\ open # {}
               THEN /\ OpenSessionsOf(night_sessions', c) = {}
                    /\ \A s \in open : night_sessions[s].start_time
                                            < clock.day * MinutesPerDay
                    /\ ~ActiveFlag(c)'
               ELSE same]_vars

\* C13 witness: a session opened on the first day has been closed on the
\* following day.
C13_Witness ==
    \E s \in DOMAIN night_sessions :
        /\ night_sessions[s].is_completed = 1
        /\ night_sessions[s].n_marked = 1
        /\ night_sessions[s].start_time < MinutesPerDay
        /\ clock.day = 1
        /\ clock.minute > 0

\* The ledger rows of one chat.
LedgerOf(ns, chat_id) ==
    [s \in {x \in DOMAIN ns : ns[x].chat_id = chat_id} |-> ns[s]]

\* C12: a scan at a time that is neither the chat's start time with no session
\* open nor the chat's end time with a session open leaves the chat's
\* configuration, its ledger rows and its saved messages as they were (so a
\* boundary minute that no scan observed is not made up for later).
C12_OtherTicksChangeNothing ==
    [][\A c \in DOMAIN chat_settings :
         LET now == strftime(clock.minute)
             open == OpenSessionsOf(night_sessions, c)
         IN (/\ TickStep
             /\ ~(now = chat_settings[c].start_time /\ open = {})
             /\ ~(now = chat_settings[c].end_time /\ open # {}))
            => /\ chat_settings'[c] = chat_settings[c]
               /\ LedgerOf(night_sessions', c) = LedgerOf(night_sessions, c)
               /\ {r \in saved_messages' : r.chat_id = c}
                     = {r \in saved_messages : r.chat_id = c}]_vars

\* C14: a scan at a chat's start time while the chat's active flag is set
\* creates no session, replaces none, sends no welcome message and leaves the
\* chat's ledger rows, their message counts included, as they were.
C14_OpenWithFlagSetIsNoOp ==
    [][\A c \in DOMAIN chat_settings :
         (/\ TickStep
          /\ strftime(clock.minute) = chat_settings[c].start_time
          /\ ActiveFlag(c))
         => LedgerOf(night_sessions', c) = LedgerOf(night_sessions, c)]_vars

\* C15: a controller started on a database in which a chat's active flag is
\* set and the chat has one open session sends no welcome message and opens no
\* second session: each of its scans leaves that session as it is until the
\* scan that finds the chat at its end time, which closes it.
C15_RestartRecovery ==
    [][\A c \in DOMAIN chat_settings :
         (/\ TickStep
          /\ ActiveFlag(c)
          /\ Cardinality(OpenSessionsOf(night_sessions, c)) = 1)
         => LET s == get_current_session(night_sessions, c) IN
            /\ DOMAIN LedgerOf(night_sessions', c) = DOMAIN LedgerOf(night_sessions, c)
            /\ night_sessions'[s].gen = night_sessions[s].gen
            /\ night_sessions'[s].n_welcome = night_sessions[s].n_welcome
            /\ IF AtEnd(c)
               THEN night_sessions'[s].is_completed = 1 /\ ~ActiveFlag(c)'
               ELSE night_sessions'[s] = night_sessions[s] /\ ActiveFlag(c)']_vars

\* C15 witness: a controller about to make its first scan in the very minute
\* the chat's open session was opened in (the scan that opened it belongs to
\* the controller that ran before), with the flag set.
C15_Witness ==
    /\ ~ticked
    /\ \E c \in DOMAIN chat_settings :
         /\ ActiveFlag(c)
         /\ Cardinality(OpenSessionsOf(night_sessions, c)) = 1
         /\ \A s \in OpenSessionsOf(night_sessions, c) :
               night_sessions[s].start_time = isoformat(clock)

\* C16: no stored chat configuration has start_time equal to end_time.
C16_NoDegenerateWindow ==
    \A c \in DOMAIN chat_settings :
        chat_settings[c].start_time # chat_settings[c].end_time

\* The transition the scan owes chat b, and that it made it.
DueOpen(b) == AtStart(b) /\ ~ActiveFlag(b)
DueClose(b) == AtEnd(b) /\ ActiveFlag(b) /\ OpenSessionsOf(night_sessions, b) # {}
Fired(b) ==
    /\ DueOpen(b) => OpenedNow(b) /\ ActiveFlag(b)'
    /\ DueClose(b) =>
          night_sessions'[get_current_session(night_sessions, b)].is_completed = 1

\* C17: when a statement raises in the iteration of chat a, every other
\* enabled chat that is due an open or a close in the same scan gets it.
C17_PerChatIsolation ==
    [][\A a, b \in Chats :
         (TickStep /\ a # b /\ tickT'.failed = a) => Fired(b)]_vars

\* C18: no session_id is produced by two open transitions, so opening never
\* overwrites a ledger row, and no session holds messages that were captured
\* under an earlier session of the same session_id.
C18_SessionIdsUnique ==
    /\ \A s \in DOMAIN night_sessions : night_sessions[s].gen = 1
    /\ \A r \in saved_messages :
          r.gen = GenOf(night_sessions, r.night_mode_session)

\* C19: when a purge closes a session, the message_count stored in its row is
\* the number of messages captured for it (the number of delete_message calls
\* of the purge), however many of the calls failed.
C19_CountIsCaptured ==
    [][\A s \in DOMAIN night_sessions :
         PurgeCompleted(s) =>
            night_sessions'[s].message_count
               = Cardinality(SelectMessages(saved_messages,
                                            night_sessions[s].chat_id, s))]_vars

\* C20: the tick thread is always at a position it scans again from; after a
\* scan that ended in the except clause the thread is still there when the
\* next minute begins (as long as the observed time has a later minute), and
\* every minute that has begun gets its scan.
C20_TickLoopSurvives ==
    /\ [](tickT.pc \in Waiting)
    /\ (tickT.pc # "sleep" /\ ticked /\ isoformat(clock) < MaxTime) ~> ~ticked
    /\ ~ticked ~> ticked

\* C20 witness: the tick thread is in the sleep of its except clause and the
\* next minute has begun.
C20_Witness == tickT.pc = "except" /\ ~ticked

\* With the settings cs, chat b's transition falls in the minute `now`: its
\* start minute with the flag clear, or its end minute with the flag set.
BoundaryDue(cs, b, now) ==
    /\ cs[b].night_mode_enabled = 1
    /\ \/ strftime(now.minute) = cs[b].start_time /\ cs[b].is_night_mode_active # 1
       \/ strftime(now.minute) = cs[b].end_time /\ cs[b].is_night_mode_active = 1

\* C21: in a scan that opens or closes a session of chat a, every other chat
\* that is due a transition gets it in that scan, and the time the scan spends
\* on chat a does not make the tick thread miss the minute in which another
\* chat's transition falls.
C21_SlowChatBlocksNoOther ==
    [][\A a, b \in DOMAIN chat_settings :
         (/\ clock' # clock
          /\ a # b
          /\ LedgerOf(night_sessions', a) # LedgerOf(night_sessions, a))
         => /\ Fired(b)
            /\ clock' # NextMinute(clock) => ~BoundaryDue(chat_settings', b, NextMinute(clock))]_vars

\* The id of the session that chat c opens at the t-th minute since the
\* beginning.
SessionAt(c, t) == <<c, t \div MinutesPerDay, t % MinutesPerDay>>

\* The session s is completed and every message saved in it has had a delete
\* attempt.
IsClosedAndPurged(s) ==
    /\ s \in DOMAIN night_sessions
    /\ night_sessions[s].is_completed = 1
    /\ \A m \in saved_messages : m.night_mode_session = s => attempts[m.message_id] # << >>

\* C22: with a scan in every minute, no exception and the chat left enabled
\* with its window, a session is closed at the next occurrence of the end
\* time, which comes within 24 hours: once the scan of the same minute of the
\* next day is over, the session is completed and every message saved in it
\* has had a delete attempt.
C22_OpenedSessionsClose ==
    \A c \in Chats, t \in 0..(MaxTime - MinutesPerDay) :
        (/\ ticked
         /\ isoformat(clock) = t + MinutesPerDay
         /\ SessionAt(c, t) \in DOMAIN night_sessions)
        => IsClosedAndPurged(SessionAt(c, t))

\* C24: typing the id of a chat that is already tracked into the add-chat
\* dialogue leaves the chat's row (enabled, window, active flag) as it was; in
\* particular it does not clear the active flag of a chat with an open session.
C24_ReRegisterPreservesRow ==
    \A c \in DOMAIN chat_settings :
        LET cs == register_chat(chat_settings, c)
        IN /\ cs[c] = chat_settings[c]
           /\ ActiveFlag(c) /\ OpenSessionsOf(night_sessions, c) # {}
                => cs[c].is_night_mode_active = 1

\* Chat c is tracked, disabled, and has the active flag set and an open
\* session: its mode was switched off in the middle of its window.
DisabledMidWindow(c) ==
    /\ HasSettings(chat_settings, c)
    /\ ~Enabled(c)
    /\ ActiveFlag(c)
    /\ OpenSessionsOf(night_sessions, c) # {}

\* This step completed a session of chat c.
ClosedNow(c) ==
    \E s \in OpenSessionsOf(night_sessions, c) : night_sessions'[s].is_completed = 1

\* C23: a scan changes neither the ledger nor the row of a chat that is not
\* enabled.  A chat switched off in the middle of its window therefore keeps
\* its session open and its flag set, and its messages are captured, in every
\* step that leaves it switched off, except the step of a force-cleanup that
\* closes the session.
C23_DisabledChatKeepsSession ==
    [][\A c \in Chats :
         /\ (TickStep /\ ~Enabled(c))
              => /\ LedgerOf(night_sessions', c) = LedgerOf(night_sessions, c)
                 /\ HasSettings(chat_settings, c) => chat_settings'[c] = chat_settings[c]
         /\ DisabledMidWindow(c)
              => capture(DB, c, NextMessageId).saved_messages # saved_messages
         /\ (DisabledMidWindow(c) /\ ~Enabled(c)')
              => \/ /\ ActiveFlag(c)'
                    /\ OpenSessionsOf(night_sessions', c) = OpenSessionsOf(night_sessions, c)
                 \/ ~TickStep /\ ClosedNow(c)]_vars

\* C25: for an enabled chat with the flag set and one open session whose
\* stored end_time is not the configured one (the end time was edited since
\* the session opened), a scan closes the session if and only if the time is
\* the configured end time; a scan at the end time stored in the session
\* leaves the session open.
C25_ClosesAtConfiguredEnd ==
    [][\A c \in DOMAIN chat_settings :
         LET s == get_current_session(night_sessions, c) IN
         (/\ TickStep
          /\ Enabled(c)
          /\ ActiveFlag(c)
          /\ Cardinality(OpenSessionsOf(night_sessions, c)) = 1
          /\ night_sessions[s].end_time # chat_settings[c].end_time)
         => /\ AtEnd(c) => night_sessions'[s].is_completed = 1 /\ ~ActiveFlag(c)'
            /\ ~AtEnd(c) => night_sessions'[s] = night_sessions[s] /\ ActiveFlag(c)'
            /\ strftime(clock.minute) = night_sessions[s].end_time
                 => night_sessions'[s].is_completed = 0]_vars

\* C25 witness: the minute of the end time stored in a chat's open session
\* has been scanned and the session, opened earlier and its chat's end time
\* edited since, is still open with the flag set.
C25_Witness ==
    /\ ticked
    /\ \E c \in DOMAIN chat_settings :
         /\ Enabled(c)
         /\ ActiveFlag(c)
         /\ Cardinality(OpenSessionsOf(night_sessions, c)) = 1
         /\ \A s \in OpenSessionsOf(night_sessions, c) :
               /\ night_sessions[s].end_time = strftime(clock.minute)
               /\ night_sessions[s].end_time # chat_settings[c].end_time
               /\ night_sessions[s].start_time < isoformat(clock)

\* This step completed a session of chat c, one that was open before the step
\* or one the step itself opened.
CompletedNow(c) ==
    \E s \in DOMAIN night_sessions' :
        /\ night_sessions'[s].chat_id = c
        /\ night_sessions'[s].is_completed = 1
        /\ s \in DOMAIN night_sessions
             => \/ night_sessions[s].is_completed = 0
                \/ night_sessions'[s].gen # night_sessions[s].gen

\* C26: a scan makes at most one transition per chat: it never both opens and
\* closes a session of the same chat.  At a minute that is both the start and
\* the end time of an enabled chat, the scan opens if the flag is clear and
\* only closes if the flag is set, so successive scans of that minute
\* alternate.
C26_OneTransitionPerScan ==
    [][TickStep =>
         \A c \in Chats :
            /\ ~(OpenedNow(c) /\ CompletedNow(c))
            /\ (AtStart(c) /\ AtEnd(c))
                 => IF ActiveFlag(c)
                    THEN ~OpenedNow(c) /\ ~ActiveFlag(c)'
                    ELSE OpenedNow(c) /\ ~CompletedNow(c) /\ ActiveFlag(c)']_vars

\* C26 witness: the scan of a minute that was both the start and the end time
\* of a chat has opened a session and left it open.
C26_Witness ==
    /\ ticked
    /\ \E s \in DOMAIN night_sessions :
         /\ night_sessions[s].start_time = isoformat(clock)
         /\ night_sessions[s].end_time = strftime(clock.minute)
         /\ night_sessions[s].is_completed = 0
         /\ ActiveFlag(night_sessions[s].chat_id)
         /\ AtStart(night_sessions[s].chat_id)
         /\ AtEnd(night_sessions[s].chat_id)

\* The saved messages of one chat.
MessagesOf(sm, chat_id) == {r \in sm : r.chat_id = chat_id}

\* C27: a force-cleanup that closes a chat's session clears the chat's flag.
\* From then on, while the flag is clear, a group message of the chat is not
\* saved, a scan at any time but the start time (the end time included)
\* leaves the chat's ledger and the delete attempts of its messages as they
\* are, and the flag is set again only by the scan at the start time, which
\* opens the next session.
C27_AfterForceCleanup ==
    [][\A c \in DOMAIN chat_settings :
         /\ (~TickStep /\ ClosedNow(c)) => ~ActiveFlag(c)'
         /\ ~ActiveFlag(c)
              => /\ handle_group_message(DB, c, "other", FALSE, NextMessageId, {}) = DB
                 /\ MessagesOf(saved_messages', c) \subseteq MessagesOf(saved_messages, c)
                 /\ ActiveFlag(c)' => TickStep /\ AtStart(c)
                 /\ TickStep
                      => IF AtStart(c)
                         THEN OpenedNow(c) /\ ActiveFlag(c)'
                         ELSE /\ LedgerOf(night_sessions', c) = LedgerOf(night_sessions, c)
                              /\ \A r \in MessagesOf(saved_messages, c) :
                                    attempts'[r.message_id] = attempts[r.message_id]]_vars

\* C27 witness: a session was opened and completed within this minute, which
\* is not its chat's end time; the flag is clear and the chat is still
\* enabled with the window the session was opened under.
C27_Witness ==
    \E s \in DOMAIN night_sessions :
        LET c == night_sessions[s].chat_id IN
        /\ night_sessions[s].is_completed = 1
        /\ night_sessions[s].n_marked = 1
        /\ night_sessions[s].start_time = isoformat(clock)
        /\ Enabled(c)
        /\ ~ActiveFlag(c)
        /\ AtStart(c)
        /\ ~AtEnd(c)
        /\ night_sessions[s].end_time = chat_settings[c].end_time
        /\ MessagesOf(saved_messages, c) # {}

\* The kinds of group message handle_group_message tells apart.
MessageKinds == {"command", "force_cleanup", "other"}

\* The open sessions of chat c that no open session of c was opened after.
LatestOpen(c) ==
    {s \in OpenSessionsOf(night_sessions, c) :
        \A t \in OpenSessionsOf(night_sessions, c) :
            night_sessions[t].start_time <= night_sessions[s].start_time}

\* C28: handling a group message adds exactly one row to saved_messages, for
\* that message and tagged with the chat's most recently opened non-completed
\* session, if the message is neither one of the four commands nor an admin's
\* /force_cleanup, the chat's flag is set and the chat has a non-completed
\* session; in every other case saved_messages is left as it is.
C28_CaptureIffActive ==
    \A c \in Chats, kind \in MessageKinds, is_admin \in BOOLEAN :
        LET after == handle_group_message(DB, c, kind, is_admin, NextMessageId, {})
            added == after.saved_messages \ saved_messages
        IN IF /\ kind = "other" \/ (kind = "force_cleanup" /\ ~is_admin)
              /\ ActiveFlag(c)
              /\ OpenSessionsOf(night_sessions, c) # {}
           THEN /\ saved_messages \subseteq after.saved_messages
                /\ Cardinality(added) = 1
                /\ \A r \in added : /\ r.chat_id = c
                                    /\ r.message_id = NextMessageId
                                    /\ r.night_mode_session \in LatestOpen(c)
           ELSE after.saved_messages = saved_messages

\* C28 witness: a chat has two open sessions and a message saved under the one
\* opened last.
C28_Witness ==
    \E c \in Chats :
        /\ ActiveFlag(c)
        /\ Cardinality(OpenSessionsOf(night_sessions, c)) = 2
        /\ \E r \in saved_messages :
              /\ r.chat_id = c
              /\ r.night_mode_session \in LatestOpen(c)
              /\ r.gen = night_sessions[r.night_mode_session].gen

\* C29: what a thread fetches is what its own query selected, whatever the
\* other thread executes on the cursor in between: the session that the
\* capture path is about to save under is a session of the message's chat,
\* the session end_night_mode is about to purge is a session of its chat_id,
\* and the purge's message list holds only rows of its own SELECT.
C29_FetchedRowsAreOwn ==
    /\ tickT.got = tickT.own
    /\ mainT.got = mainT.own
    /\ mainT.pc = "save"
         => /\ mainT.session_id \in DOMAIN night_sessions
            /\ night_sessions[mainT.session_id].chat_id = mainT.chat_id
    /\ tickT.pc = "msgs_exec"
         => /\ tickT.session_id \in DOMAIN night_sessions
            /\ night_sessions[tickT.session_id].chat_id = tickT.chat_id

====
